---- MODULE Spec2Model ----
(***************************************************************************)
(* Orchestration layer of the wearable transcription device (vocatalk):    *)
(* main(), the signal handler and the five task threads of main.cpp, with  *)
(* the globals they share.                                                 *)
(*                                                                         *)
(* A text is a natural number: NoText (0) is the empty string, and the     *)
(* k-th non-empty transcription result is the text k, so that every        *)
(* record can be told from every other one.                                *)
(***************************************************************************)
EXTENDS Integers, Sequences, FiniteSets, TLC

\* ---------------------------------------------------------------- bounds
\* Non-empty transcription results the transcriber delivers in one run of the
\* whole program.
MaxSpeech == 1
\* The same, in the runs of the capture task with the tasks that read the text.
MaxSpeechTasks == 2
\* The same, in the runs of the capture task with the storage task.
MaxSpeechStorage == 4
\* The same, in the runs of the capture task alone.
MaxSpeechCapture == 151
\* Records already appended when a run of SpecHistory or SpecStorage starts.
PreFill == 99
\* Words in a text given to Display::wrapText.
MaxWords == 9
\* Characters in the longest word of such a text.
MaxWordLength == 22
\* Collaborator calls (durable-store writes, battery reads) that fail in a run
\* in which calls can fail.
MaxFaults == 1

\* ------------------------------------------------------- program constants
\* if (g_transcription_history.size() > 100)
MaxHistory == 100

NoText == 0

Tasks == {"audio", "display", "storage", "power", "connectivity"}

VARIABLES
    g_running,                  \* std::atomic<bool> g_running
    g_low_power_mode,           \* std::atomic<bool> g_low_power_mode
    g_text_mutex,               \* std::mutex g_text_mutex: "free" or its holder
    g_current_transcription,    \* std::string g_current_transcription
    g_transcription_history,    \* std::vector<std::string> g_transcription_history
    pc,                         \* position of each task thread
    text,                       \* audioProcessingThread: std::string text
    text_to_display,            \* displayUpdateThread: std::string text_to_display
    current_transcriptions,     \* storageThread: current_transcriptions
    last_saved_transcriptions,  \* storageThread: last_saved_transcriptions
    i,                          \* storageThread: loop index of the save loop
    store,                      \* StorageManager: records written, in order
    prev_seen,                  \* appends seen by the storage task's last finished cycle
    battery_level,              \* powerManagementThread: float battery_level
    transcriptions,             \* connectivityThread: transcriptions
    batch,                      \* connectivityThread: getUnsyncedTranscriptions()'s result
    synced,                     \* StorageManager: how many records are marked synced
    uploaded,                   \* records (places in store) a backup call delivered
    interval,                   \* connectivityThread: seconds of its current sleep
    main_pc,                    \* position of main()
    constructed,                \* collaborators constructed by main(), in order
    released,                   \* collaborators destroyed, in order
    joined,                     \* task threads main() has joined, in order
    exit_code,                  \* exit code of the process (NoExit while it runs)
    shutdown_reported,          \* "System shutdown complete." was printed
    speechLeft,                 \* non-empty results the transcriber still delivers
    appended,                   \* number of push_back calls so far
    vibrations,                 \* number of haptic.triggerVibration() calls so far
    faultsLeft,                 \* collaborator calls that still fail in this run
    failed_at,                  \* storageThread: index of this cycle's first failed write
    read_failed,                \* powerManagementThread: this cycle's battery read failed
    wrap_pc,                    \* Display::wrapText: position in the function
    words,                      \* Display::wrapText: the words read from the text so far
    current_line,               \* Display::wrapText: std::string current_line
    lines                       \* Display::wrapText: std::vector<std::string>& lines

vars == <<g_running, g_low_power_mode, g_text_mutex, g_current_transcription,
          g_transcription_history, pc, text, text_to_display,
          current_transcriptions, last_saved_transcriptions, i, store, prev_seen,
          speechLeft, appended, vibrations, battery_level,
          transcriptions, batch, synced, uploaded, interval, main_pc, constructed,
          released, joined, exit_code, shutdown_reported, faultsLeft, failed_at,
          read_failed, wrap_pc, words, current_line, lines>>

sharedText == <<g_current_transcription, g_transcription_history>>
audioVars == <<text, speechLeft, appended, vibrations>>
displayVars == <<text_to_display>>
storageVars == <<current_transcriptions, last_saved_transcriptions, i, store,
                 prev_seen>>
powerVars == <<battery_level>>
connVars == <<transcriptions, batch, synced, uploaded, interval>>
mainVars == <<main_pc, constructed, released, joined, exit_code, shutdown_reported>>
faultVars == <<faultsLeft, failed_at, read_failed>>
wrapVars == <<wrap_pc, words, current_line, lines>>

Min(a, b) == IF a < b THEN a ELSE b

\* The history after k appends of the texts 1, 2, ..., k when only the last
\* MaxHistory of them are kept.
HistoryAt(k) == [j \in 1 .. Min(k, MaxHistory) |-> k - Min(k, MaxHistory) + j]

\* ------------------------------------------------------------ text mutex
LockAlwaysFree == TRUE

\* std::lock_guard<std::mutex> lock(g_text_mutex): blocks until the mutex is free.
LockFree == g_text_mutex = "free"

\* --------------------------------------------------------------- run flag
WhileTrue == TRUE

\* while (g_running): the test at the head of every task's loop
WhileRunning == g_running

\* ------------------------------------------------- audioProcessingThread
\* KeywordDetector::detectKeywords: every second text contains a keyword.
detectKeywords(t) == t % 2 = 0

\* while (g_running)
AudioLoop ==
    /\ UNCHANGED <<faultVars, wrapVars>>
    /\ pc["audio"] = "loop"
    /\ pc' = [pc EXCEPT !["audio"] = IF WhileRunning THEN "capture" ELSE "done"]
    /\ UNCHANGED <<powerVars, connVars, mainVars>>
    /\ UNCHANGED <<g_running, g_low_power_mode, g_text_mutex, sharedText, audioVars,
                   displayVars, storageVars>>

\* captureAudio, processAudio, transcribe without the test if (!text.empty())
AudioTranscribeNoEmptyTest ==
    /\ UNCHANGED <<faultVars, wrapVars>>
    /\ pc["audio"] = "capture"
    /\ \E t \in {NoText} \cup (IF speechLeft > 0 THEN {appended + 1} ELSE {}) :
          /\ text' = t
          /\ speechLeft' = IF t = NoText THEN speechLeft ELSE speechLeft - 1
          /\ pc' = [pc EXCEPT !["audio"] = "keyword"]
    /\ UNCHANGED <<powerVars, connVars, mainVars>>
    /\ UNCHANGED <<g_running, g_low_power_mode, g_text_mutex, sharedText, appended,
                   vibrations, displayVars, storageVars>>

\* captureAudio, processAudio, transcribe: the result is the empty string or
\* the next text; if (!text.empty()) ... else sleep_for(10 ms)
AudioTranscribe ==
    /\ UNCHANGED <<faultVars, wrapVars>>
    /\ pc["audio"] = "capture"
    /\ \E t \in {NoText} \cup (IF speechLeft > 0 THEN {appended + 1} ELSE {}) :
          /\ text' = t
          /\ speechLeft' = IF t = NoText THEN speechLeft ELSE speechLeft - 1
          /\ pc' = [pc EXCEPT !["audio"] = IF t = NoText THEN "loop" ELSE "keyword"]
    /\ UNCHANGED <<powerVars, connVars, mainVars>>
    /\ UNCHANGED <<g_running, g_low_power_mode, g_text_mutex, sharedText, appended,
                   vibrations, displayVars, storageVars>>

\* haptic.triggerVibration() without the keyword test
AudioKeywordAlways ==
    /\ UNCHANGED <<faultVars, wrapVars>>
    /\ pc["audio"] = "keyword"
    /\ vibrations' = vibrations + 1
    /\ pc' = [pc EXCEPT !["audio"] = "lock"]
    /\ UNCHANGED <<powerVars, connVars, mainVars>>
    /\ UNCHANGED <<g_running, g_low_power_mode, g_text_mutex, sharedText, text,
                   speechLeft, appended, displayVars, storageVars>>

\* if (keyword.detectKeywords(text)) haptic.triggerVibration();
AudioKeyword ==
    /\ UNCHANGED <<faultVars, wrapVars>>
    /\ pc["audio"] = "keyword"
    /\ vibrations' = IF detectKeywords(text) THEN vibrations + 1 ELSE vibrations
    /\ pc' = [pc EXCEPT !["audio"] = "lock"]
    /\ UNCHANGED <<powerVars, connVars, mainVars>>
    /\ UNCHANGED <<g_running, g_low_power_mode, g_text_mutex, sharedText, text,
                   speechLeft, appended, displayVars, storageVars>>

\* std::lock_guard<std::mutex> lock(g_text_mutex);
AudioLock ==
    /\ UNCHANGED <<faultVars, wrapVars>>
    /\ pc["audio"] = "lock"
    /\ LockFree
    /\ g_text_mutex' = "audio"
    /\ pc' = [pc EXCEPT !["audio"] = "set_current"]
    /\ UNCHANGED <<powerVars, connVars, mainVars>>
    /\ UNCHANGED <<g_running, g_low_power_mode, sharedText, audioVars, displayVars,
                   storageVars>>

\* g_current_transcription = text;
AudioSetCurrent ==
    /\ UNCHANGED <<faultVars, wrapVars>>
    /\ pc["audio"] = "set_current"
    /\ g_current_transcription' = text
    /\ pc' = [pc EXCEPT !["audio"] = "push_back"]
    /\ UNCHANGED <<powerVars, connVars, mainVars>>
    /\ UNCHANGED <<g_running, g_low_power_mode, g_text_mutex, g_transcription_history,
                   audioVars, displayVars, storageVars>>

\* g_transcription_history.push_back(text);
AudioPushBack ==
    /\ UNCHANGED <<faultVars, wrapVars>>
    /\ pc["audio"] = "push_back"
    /\ g_transcription_history' = Append(g_transcription_history, text)
    /\ appended' = appended + 1
    /\ pc' = [pc EXCEPT !["audio"] = "limit"]
    /\ UNCHANGED <<powerVars, connVars, mainVars>>
    /\ UNCHANGED <<g_running, g_low_power_mode, g_text_mutex, g_current_transcription,
                   text, speechLeft, vibrations, displayVars, storageVars>>

LimitHistoryOffByOne(h) == IF Len(h) > MaxHistory + 1 THEN Tail(h) ELSE h

LimitHistoryDropNewest(h) == IF Len(h) > MaxHistory THEN SubSeq(h, 1, Len(h) - 1) ELSE h

\* if (g_transcription_history.size() > 100) erase(begin());
LimitHistory(h) == IF Len(h) > MaxHistory THEN Tail(h) ELSE h

\* the size limit, the end of the lock_guard's scope, sleep_for(10 ms);
\* text goes out of scope
AudioLimit ==
    /\ UNCHANGED <<faultVars, wrapVars>>
    /\ pc["audio"] = "limit"
    /\ g_transcription_history' = LimitHistory(g_transcription_history)
    /\ g_text_mutex' = "free"
    /\ text' = NoText
    /\ pc' = [pc EXCEPT !["audio"] = "loop"]
    /\ UNCHANGED <<powerVars, connVars, mainVars>>
    /\ UNCHANGED <<g_running, g_low_power_mode, g_current_transcription, speechLeft,
                   appended, vibrations, displayVars, storageVars>>

audioProcessingThread ==
    \/ AudioLoop
    \/ AudioTranscribe
    \/ AudioKeyword
    \/ AudioLock
    \/ AudioSetCurrent
    \/ AudioPushBack
    \/ AudioLimit

\* ---------------------------------------------------- displayUpdateThread
\* while (g_running)
DisplayLoop ==
    /\ UNCHANGED <<faultVars, wrapVars>>
    /\ pc["display"] = "loop"
    /\ pc' = [pc EXCEPT !["display"] = IF WhileRunning THEN "lock" ELSE "done"]
    /\ UNCHANGED <<powerVars, connVars, mainVars>>
    /\ UNCHANGED <<g_running, g_low_power_mode, g_text_mutex, sharedText, audioVars,
                   displayVars, storageVars>>

\* std::lock_guard<std::mutex> lock(g_text_mutex);
DisplayLock ==
    /\ UNCHANGED <<faultVars, wrapVars>>
    /\ pc["display"] = "lock"
    /\ LockFree
    /\ g_text_mutex' = "display"
    /\ pc' = [pc EXCEPT !["display"] = "copy"]
    /\ UNCHANGED <<powerVars, connVars, mainVars>>
    /\ UNCHANGED <<g_running, g_low_power_mode, sharedText, audioVars, displayVars,
                   storageVars>>

\* text_to_display = g_current_transcription with the mutex never released
DisplayCopyHoldingLock ==
    /\ UNCHANGED <<faultVars, wrapVars>>
    /\ pc["display"] = "copy"
    /\ text_to_display' = g_current_transcription
    /\ pc' = [pc EXCEPT !["display"] = "show"]
    /\ UNCHANGED <<powerVars, connVars, mainVars>>
    /\ UNCHANGED <<g_running, g_low_power_mode, g_text_mutex, sharedText, audioVars,
                   storageVars>>

\* text_to_display = g_current_transcription; then the end of the lock's scope
DisplayCopy ==
    /\ UNCHANGED <<faultVars, wrapVars>>
    /\ pc["display"] = "copy"
    /\ text_to_display' = g_current_transcription
    /\ g_text_mutex' = "free"
    /\ pc' = [pc EXCEPT !["display"] = "show"]
    /\ UNCHANGED <<powerVars, connVars, mainVars>>
    /\ UNCHANGED <<g_running, g_low_power_mode, sharedText, audioVars, storageVars>>

\* display.clear(); display.showText(text_to_display); display.update();
\* sleep_for(100 ms); text_to_display goes out of scope
DisplayShow ==
    /\ UNCHANGED <<faultVars, wrapVars>>
    /\ pc["display"] = "show"
    /\ text_to_display' = NoText
    /\ pc' = [pc EXCEPT !["display"] = "loop"]
    /\ UNCHANGED <<powerVars, connVars, mainVars>>
    /\ UNCHANGED <<g_running, g_low_power_mode, g_text_mutex, sharedText, audioVars,
                   storageVars>>

displayUpdateThread ==
    \/ DisplayLoop
    \/ DisplayLock
    \/ DisplayCopy
    \/ DisplayShow

\* ---------------------------------------------------------- storageThread
\* No storage cycle has finished yet.
NoCycle == -1

\* getCurrentTimestamp(): the clock advances with every append.
getCurrentTimestamp == appended

\* while (g_running)
StorageLoop ==
    /\ UNCHANGED <<faultVars, wrapVars>>
    /\ pc["storage"] = "loop"
    /\ pc' = [pc EXCEPT !["storage"] = IF WhileRunning THEN "lock" ELSE "done"]
    /\ UNCHANGED <<powerVars, connVars, mainVars>>
    /\ UNCHANGED <<g_running, g_low_power_mode, g_text_mutex, sharedText, audioVars,
                   displayVars, storageVars>>

\* std::lock_guard<std::mutex> lock(g_text_mutex);
StorageLock ==
    /\ UNCHANGED <<faultVars, wrapVars>>
    /\ pc["storage"] = "lock"
    /\ LockFree
    /\ g_text_mutex' = "storage"
    /\ pc' = [pc EXCEPT !["storage"] = "copy"]
    /\ UNCHANGED <<powerVars, connVars, mainVars>>
    /\ UNCHANGED <<g_running, g_low_power_mode, sharedText, audioVars, displayVars,
                   storageVars>>

\* current_transcriptions = g_transcription_history with the scope of the
\* lock_guard extended over the save loop
StorageCopyHoldingLock ==
    /\ UNCHANGED <<faultVars, wrapVars>>
    /\ pc["storage"] = "copy"
    /\ current_transcriptions' = g_transcription_history
    /\ pc' = [pc EXCEPT !["storage"] = "compare"]
    /\ UNCHANGED <<powerVars, connVars, mainVars>>
    /\ UNCHANGED <<g_running, g_low_power_mode, g_text_mutex, sharedText, audioVars,
                   displayVars, last_saved_transcriptions, i, store, prev_seen>>

\* current_transcriptions = g_transcription_history; then the end of the scope
StorageCopy ==
    /\ UNCHANGED <<faultVars, wrapVars>>
    /\ pc["storage"] = "copy"
    /\ current_transcriptions' = g_transcription_history
    /\ g_text_mutex' = "free"
    /\ pc' = [pc EXCEPT !["storage"] = "compare"]
    /\ UNCHANGED <<powerVars, connVars, mainVars>>
    /\ UNCHANGED <<g_running, g_low_power_mode, sharedText, audioVars, displayVars,
                   last_saved_transcriptions, i, store, prev_seen>>

\* The number of appends a snapshot of the history has seen: its newest text.
SnapshotCount(h) == IF h = <<>> THEN 0 ELSE h[Len(h)]

\* if (current_transcriptions.size() > last_saved_transcriptions.size())
HasNew(cur, last) == Len(cur) > Len(last)

\* the size comparison; then for (size_t i = last_saved_transcriptions.size(); ...
\* or, with nothing new, sleep_for(5 s) and the end of the snapshot's scope
StorageCompare ==
    /\ UNCHANGED <<faultVars, wrapVars>>
    /\ pc["storage"] = "compare"
    /\ IF HasNew(current_transcriptions, last_saved_transcriptions)
          THEN /\ i' = Len(last_saved_transcriptions)
               /\ pc' = [pc EXCEPT !["storage"] = "save"]
               /\ UNCHANGED <<current_transcriptions, prev_seen>>
          ELSE /\ i' = i
               /\ prev_seen' = SnapshotCount(current_transcriptions)
               /\ current_transcriptions' = <<>>
               /\ pc' = [pc EXCEPT !["storage"] = "loop"]
    /\ UNCHANGED <<powerVars, connVars, mainVars>>
    /\ UNCHANGED <<g_running, g_low_power_mode, g_text_mutex, sharedText, audioVars,
                   displayVars, last_saved_transcriptions, store>>

LastSavedNothing(cur, last) == <<>>

LastSavedOnlyNew(cur, last) == SubSeq(cur, Len(last) + 1, Len(cur))

LastSavedStale(cur, last) == last

\* last_saved_transcriptions = current_transcriptions;
LastSaved(cur, last) == cur

\* No write of the current storage cycle has failed.
NoFail == -1

\* storage.saveTranscription(...) writes the record, or (in a run in which
\* calls can fail) fails to; the caller does not look at the outcome.
WriteOutcomes == IF faultsLeft > 0 THEN BOOLEAN ELSE {TRUE}

\* one turn of the loop: i < current_transcriptions.size() ?
\*   storage.saveTranscription(getCurrentTimestamp(), current_transcriptions[i]); i++
\* and after it: last_saved_transcriptions = current_transcriptions;
\* sleep_for(5 s) and the end of the snapshot's scope
StorageSave ==
    /\ pc["storage"] = "save"
    /\ IF i < Len(current_transcriptions)
          THEN /\ \E written \in WriteOutcomes :
                     /\ store' = IF written
                                    THEN Append(store,
                                                [text |-> current_transcriptions[i + 1],
                                                 time |-> getCurrentTimestamp])
                                    ELSE store
                     /\ faultsLeft' = IF written THEN faultsLeft ELSE faultsLeft - 1
                     /\ failed_at' = IF written \/ failed_at # NoFail
                                        THEN failed_at ELSE i
               /\ i' = i + 1
               /\ UNCHANGED <<last_saved_transcriptions, current_transcriptions,
                              prev_seen, pc>>
          ELSE /\ last_saved_transcriptions' =
                     LastSaved(current_transcriptions, last_saved_transcriptions)
               /\ prev_seen' = SnapshotCount(current_transcriptions)
               /\ current_transcriptions' = <<>>
               /\ i' = 0
               /\ failed_at' = NoFail
               /\ pc' = [pc EXCEPT !["storage"] = "loop"]
               /\ UNCHANGED <<store, faultsLeft>>
    /\ UNCHANGED <<powerVars, connVars, mainVars>>
    /\ UNCHANGED <<g_running, g_low_power_mode, g_text_mutex, sharedText, audioVars,
                   displayVars, read_failed, wrapVars>>

storageThread ==
    \/ StorageLoop
    \/ StorageLock
    \/ StorageCopy
    \/ StorageCompare
    \/ StorageSave

\* -------------------------------------------------- powerManagementThread
\* A battery level is a float; it is written here in units of 10^-9. These are
\* the floats nearest to 0.15, 0.20 (below and above), 0.25, 0.30 (below and
\* above) and 0.35. No float equals 0.2 or 0.3, and none lies between 0.2 or
\* 0.3 and the double the literal 0.2 or 0.3 stands for.
BatteryLevels == {150000006, 199999988, 200000003, 250000000, 299999982,
                  300000012, 349999994}

NoLevel == -1

\* if (battery_level < 0.2)
LowThreshold == 200000000

\* else if (battery_level > 0.3)
HighThreshold == 300000000

\* while (g_running)
PowerLoop ==
    /\ UNCHANGED <<faultVars, wrapVars>>
    /\ pc["power"] = "loop"
    /\ pc' = [pc EXCEPT !["power"] = IF WhileRunning THEN "sample" ELSE "done"]
    /\ UNCHANGED <<g_running, g_low_power_mode, g_text_mutex, sharedText, audioVars,
                   displayVars, storageVars, powerVars, connVars, mainVars>>

\* What getBatteryLevel() hands back when the read of the battery fails: the
\* call site receives a float like any other.
FailedReadings == BatteryLevels

\* float battery_level = power.getBatteryLevel();
PowerSample ==
    /\ pc["power"] = "sample"
    /\ \/ /\ \E level \in BatteryLevels : battery_level' = level
          /\ UNCHANGED <<faultsLeft, read_failed>>
       \/ /\ faultsLeft > 0
          /\ \E level \in FailedReadings : battery_level' = level
          /\ faultsLeft' = faultsLeft - 1
          /\ read_failed' = TRUE
    /\ UNCHANGED <<failed_at, wrapVars>>
    /\ pc' = [pc EXCEPT !["power"] = "decide"]
    /\ UNCHANGED <<g_running, g_low_power_mode, g_text_mutex, sharedText, audioVars,
                   displayVars, storageVars, connVars, mainVars>>

NextModeNoBand(mode, level) == level < HighThreshold

\* if (battery_level < 0.2) g_low_power_mode = true;
\* else if (battery_level > 0.3) g_low_power_mode = false;
NextMode(mode, level) ==
    IF level < LowThreshold THEN TRUE
    ELSE IF level > HighThreshold THEN FALSE
    ELSE mode

PowerDecide ==
    /\ UNCHANGED <<faultVars, wrapVars>>
    /\ pc["power"] = "decide"
    /\ g_low_power_mode' = NextMode(g_low_power_mode, battery_level)
    /\ pc' = [pc EXCEPT !["power"] = "update"]
    /\ UNCHANGED <<g_running, g_text_mutex, sharedText, audioVars, displayVars,
                   storageVars, powerVars, connVars, mainVars>>

\* power.updatePowerMode(g_low_power_mode); sleep_for(60 s);
\* battery_level goes out of scope
PowerUpdate ==
    /\ pc["power"] = "update"
    /\ battery_level' = NoLevel
    /\ read_failed' = FALSE
    /\ UNCHANGED <<faultsLeft, failed_at, wrapVars>>
    /\ pc' = [pc EXCEPT !["power"] = "loop"]
    /\ UNCHANGED <<g_running, g_low_power_mode, g_text_mutex, sharedText, audioVars,
                   displayVars, storageVars, connVars, mainVars>>

powerManagementThread ==
    \/ PowerLoop
    \/ PowerSample
    \/ PowerDecide
    \/ PowerUpdate

\* ----------------------------------------------------- connectivityThread
\* while (g_running)
ConnLoop ==
    /\ UNCHANGED <<faultVars, wrapVars>>
    /\ pc["connectivity"] = "loop"
    /\ pc' = [pc EXCEPT !["connectivity"] = IF WhileRunning THEN "bt" ELSE "done"]
    /\ UNCHANGED <<g_running, g_low_power_mode, g_text_mutex, sharedText, audioVars,
                   displayVars, storageVars, powerVars, connVars, mainVars>>

\* if (bt.isConnected())
ConnBtConnected ==
    /\ UNCHANGED <<faultVars, wrapVars>>
    /\ pc["connectivity"] = "bt"
    /\ \E connected \in BOOLEAN :
          pc' = [pc EXCEPT !["connectivity"] = IF connected THEN "bt_lock" ELSE "wifi"]
    /\ UNCHANGED <<g_running, g_low_power_mode, g_text_mutex, sharedText, audioVars,
                   displayVars, storageVars, powerVars, connVars, mainVars>>

\* transcriptions = g_transcription_history without the lock_guard before it
ConnLockSkipped ==
    /\ UNCHANGED <<faultVars, wrapVars>>
    /\ pc["connectivity"] = "bt_lock"
    /\ pc' = [pc EXCEPT !["connectivity"] = "bt_copy"]
    /\ UNCHANGED <<g_running, g_low_power_mode, g_text_mutex, sharedText, audioVars,
                   displayVars, storageVars, powerVars, connVars, mainVars>>

\* std::lock_guard<std::mutex> lock(g_text_mutex);
ConnLock ==
    /\ UNCHANGED <<faultVars, wrapVars>>
    /\ pc["connectivity"] = "bt_lock"
    /\ LockFree
    /\ g_text_mutex' = "connectivity"
    /\ pc' = [pc EXCEPT !["connectivity"] = "bt_copy"]
    /\ UNCHANGED <<g_running, g_low_power_mode, sharedText, audioVars, displayVars,
                   storageVars, powerVars, connVars, mainVars>>

\* transcriptions = g_transcription_history; then the end of the lock's scope
ConnCopy ==
    /\ UNCHANGED <<faultVars, wrapVars>>
    /\ pc["connectivity"] = "bt_copy"
    /\ transcriptions' = g_transcription_history
    /\ g_text_mutex' = "free"
    /\ pc' = [pc EXCEPT !["connectivity"] = "bt_sync"]
    /\ UNCHANGED <<g_running, g_low_power_mode, sharedText, audioVars, displayVars,
                   storageVars, powerVars, batch, synced, uploaded, interval, mainVars>>

\* bt.syncTranscriptions(transcriptions); transcriptions goes out of scope
ConnBtSync ==
    /\ UNCHANGED <<faultVars, wrapVars>>
    /\ pc["connectivity"] = "bt_sync"
    /\ transcriptions' = <<>>
    /\ pc' = [pc EXCEPT !["connectivity"] = "wifi"]
    /\ UNCHANGED <<g_running, g_low_power_mode, g_text_mutex, sharedText, audioVars,
                   displayVars, storageVars, powerVars, batch, synced, uploaded,
                   interval, mainVars>>

\* if (wifi.isEnabled() && wifi.isConnected()) ... storage.getUnsyncedTranscriptions()
ConnWifi ==
    /\ UNCHANGED <<faultVars, wrapVars>>
    /\ pc["connectivity"] = "wifi"
    /\ \E available \in BOOLEAN :
          IF available
             THEN /\ batch' = (synced + 1) .. Len(store)
                  /\ pc' = [pc EXCEPT !["connectivity"] = "backup"]
             ELSE /\ batch' = batch
                  /\ pc' = [pc EXCEPT !["connectivity"] = "wait"]
    /\ UNCHANGED <<g_running, g_low_power_mode, g_text_mutex, sharedText, audioVars,
                   displayVars, storageVars, powerVars, transcriptions, synced,
                   uploaded, interval, mainVars>>

\* wifi.backupTranscriptions(...): the upload delivers the batch or fails
ConnBackup ==
    /\ UNCHANGED <<faultVars, wrapVars>>
    /\ pc["connectivity"] = "backup"
    /\ \E delivered \in BOOLEAN :
          uploaded' = IF delivered THEN uploaded \cup batch ELSE uploaded
    /\ batch' = {}
    /\ pc' = [pc EXCEPT !["connectivity"] = "mark"]
    /\ UNCHANGED <<g_running, g_low_power_mode, g_text_mutex, sharedText, audioVars,
                   displayVars, storageVars, powerVars, transcriptions, synced,
                   interval, mainVars>>

\* storage.markTranscriptionsAsSynced();
ConnMark ==
    /\ UNCHANGED <<faultVars, wrapVars>>
    /\ pc["connectivity"] = "mark"
    /\ synced' = Len(store)
    /\ pc' = [pc EXCEPT !["connectivity"] = "wait"]
    /\ UNCHANGED <<g_running, g_low_power_mode, g_text_mutex, sharedText, audioVars,
                   displayVars, storageVars, powerVars, transcriptions, batch,
                   uploaded, interval, mainVars>>

\* seconds(g_low_power_mode ? 300 : 60)
LongInterval == 300

ShortInterval == 60

SleepSecondsSwapped(low) == IF low THEN ShortInterval ELSE LongInterval

SleepSeconds(low) == IF low THEN LongInterval ELSE ShortInterval

\* sleep_for(std::chrono::seconds(g_low_power_mode ? 300 : 60)) begins
ConnWait ==
    /\ UNCHANGED <<faultVars, wrapVars>>
    /\ pc["connectivity"] = "wait"
    /\ interval' = SleepSeconds(g_low_power_mode)
    /\ pc' = [pc EXCEPT !["connectivity"] = "sleep"]
    /\ UNCHANGED <<g_running, g_low_power_mode, g_text_mutex, sharedText, audioVars,
                   displayVars, storageVars, powerVars, transcriptions, batch, synced,
                   uploaded, mainVars>>

\* the sleep ends
ConnSleep ==
    /\ UNCHANGED <<faultVars, wrapVars>>
    /\ pc["connectivity"] = "sleep"
    /\ interval' = 0
    /\ pc' = [pc EXCEPT !["connectivity"] = "loop"]
    /\ UNCHANGED <<g_running, g_low_power_mode, g_text_mutex, sharedText, audioVars,
                   displayVars, storageVars, powerVars, transcriptions, batch, synced,
                   uploaded, mainVars>>

connectivityThread ==
    \/ ConnLoop
    \/ ConnBtConnected
    \/ ConnLock
    \/ ConnCopy
    \/ ConnBtSync
    \/ ConnWifi
    \/ ConnBackup
    \/ ConnMark
    \/ ConnWait
    \/ ConnSleep

\* ---------------------------------------------------------- signalHandler
\* a handler that flips the flag instead of clearing it
signalHandlerToggles ==
    /\ UNCHANGED <<faultVars, wrapVars>>
    /\ main_pc # "exited"
    /\ g_running' = ~g_running
    /\ UNCHANGED <<g_low_power_mode, g_text_mutex, sharedText, pc, audioVars,
                   displayVars, storageVars, powerVars, connVars, mainVars>>

\* g_running = false; (SIGINT, at any moment while the process runs)
signalHandler ==
    /\ UNCHANGED <<faultVars, wrapVars>>
    /\ main_pc # "exited"
    /\ g_running' = FALSE
    /\ UNCHANGED <<g_low_power_mode, g_text_mutex, sharedText, pc, audioVars,
                   displayVars, storageVars, powerVars, connVars, mainVars>>

\* ------------------------------------------------------------------ main
\* The collaborators in the order main() constructs them.
Collaborators == <<"audio", "display", "haptic", "power", "bluetooth", "wifi",
                   "noise", "stt", "keyword", "storage">>

\* The task threads in the order main() starts and joins them.
ThreadOrder == <<"audio", "display", "storage", "power", "connectivity">>

NoExit == -1

AfterConstructEarly(n) == IF n >= Len(Collaborators) - 1 THEN "start" ELSE "construct"

\* After the last constructor ("System initialized.") main() starts the threads.
AfterConstruct(n) == IF n = Len(Collaborators) THEN "start" ELSE "construct"

\* The next collaborator's constructor returns, or throws (AudioCapture,
\* Display and SpeechToText throw std::runtime_error when they fail to
\* initialize); an exception leaves the try block.
MainConstruct ==
    /\ UNCHANGED <<faultVars, wrapVars>>
    /\ main_pc = "construct"
    /\ \E ok \in BOOLEAN :
          IF ok
             THEN /\ constructed' = Append(constructed,
                                           Collaborators[Len(constructed) + 1])
                  /\ main_pc' = AfterConstruct(Len(constructed) + 1)
             ELSE /\ constructed' = constructed
                  /\ main_pc' = "unwind"
    /\ UNCHANGED <<g_running, g_low_power_mode, g_text_mutex, sharedText, pc, audioVars,
                   displayVars, storageVars, powerVars, connVars, released, joined,
                   exit_code, shutdown_reported>>

Started == {t \in Tasks : pc[t] # "idle"}

\* std::thread audio_thread(...); ... std::thread connectivity_thread(...);
MainStart ==
    /\ UNCHANGED <<faultVars, wrapVars>>
    /\ main_pc = "start"
    /\ LET t == ThreadOrder[Cardinality(Started) + 1] IN
          /\ pc' = [pc EXCEPT ![t] = "loop"]
          /\ main_pc' = IF Cardinality(Started) + 1 = Len(ThreadOrder)
                           THEN "join" ELSE "start"
    /\ UNCHANGED <<g_running, g_low_power_mode, g_text_mutex, sharedText, audioVars,
                   displayVars, storageVars, powerVars, connVars, constructed,
                   released, joined, exit_code, shutdown_reported>>

JoinReadyAlways(t) == TRUE

\* t.join() returns once the thread function of t has returned
JoinReady(t) == pc[t] = "done"

\* audio_thread.join(); ... connectivity_thread.join();
MainJoin ==
    /\ UNCHANGED <<faultVars, wrapVars>>
    /\ main_pc = "join"
    /\ LET t == ThreadOrder[Len(joined) + 1] IN
          /\ JoinReady(t)
          /\ joined' = Append(joined, t)
          /\ main_pc' = IF Len(joined) + 1 = Len(ThreadOrder) THEN "release" ELSE "join"
    /\ UNCHANGED <<g_running, g_low_power_mode, g_text_mutex, sharedText, pc, audioVars,
                   displayVars, storageVars, powerVars, connVars, constructed,
                   released, exit_code, shutdown_reported>>

\* The try block is left (at its end, or by an exception): the collaborators
\* constructed so far are destroyed, the last constructed first.
MainRelease ==
    /\ UNCHANGED <<faultVars, wrapVars>>
    /\ main_pc \in {"release", "unwind"}
    /\ Len(released) < Len(constructed)
    /\ released' = Append(released, constructed[Len(constructed) - Len(released)])
    /\ UNCHANGED <<g_running, g_low_power_mode, g_text_mutex, sharedText, pc, audioVars,
                   displayVars, storageVars, powerVars, connVars, main_pc, constructed,
                   joined, exit_code, shutdown_reported>>

\* std::cout << "System shutdown complete."; return 0;
MainReturn ==
    /\ UNCHANGED <<faultVars, wrapVars>>
    /\ main_pc = "release"
    /\ Len(released) = Len(constructed)
    /\ shutdown_reported' = TRUE
    /\ exit_code' = 0
    /\ main_pc' = "exited"
    /\ UNCHANGED <<g_running, g_low_power_mode, g_text_mutex, sharedText, pc, audioVars,
                   displayVars, storageVars, powerVars, connVars, constructed,
                   released, joined>>

\* catch (const std::exception& e) { ...; return 1; }
MainCatch ==
    /\ UNCHANGED <<faultVars, wrapVars>>
    /\ main_pc = "unwind"
    /\ Len(released) = Len(constructed)
    /\ exit_code' = 1
    /\ main_pc' = "exited"
    /\ UNCHANGED <<g_running, g_low_power_mode, g_text_mutex, sharedText, pc, audioVars,
                   displayVars, storageVars, powerVars, connVars, constructed,
                   released, joined, shutdown_reported>>

main ==
    \/ MainConstruct
    \/ MainStart
    \/ MainJoin
    \/ MainRelease
    \/ MainReturn
    \/ MainCatch

\* ------------------------------------------------------- Display::wrapText
\* A text is the sequence of its words as operator>> reads them from the
\* stream (maximal runs of non-blank characters), and a word is its length; a
\* line is the sequence of the words it joins with single blanks.

\* const int chars_per_line = 21;
chars_per_line == 21

\* if (lines.size() > 8) lines.resize(8);
MaxLines == 8

\* The lengths of the words of the texts: two that fill a line exactly when
\* joined by a blank, one more, and the longest.
WordLengths == {(chars_per_line - 1) \div 2, (chars_per_line + 1) \div 2, MaxWordLength}

RECURSIVE SumOf(_)
SumOf(q) == IF q = <<>> THEN 0 ELSE Head(q) + SumOf(Tail(q))

\* std::string::length() of a line
LineLength(line) == IF line = <<>> THEN 0 ELSE SumOf(line) + Len(line) - 1

\* Everything but the locals of wrapText.
taskVars == <<g_running, g_low_power_mode, g_text_mutex, sharedText, pc, audioVars,
              displayVars, storageVars, powerVars, connVars, mainVars, faultVars>>

\* Display::showText: std::vector<std::string> lines; wrapText(text, lines);
\* and in wrapText: std::istringstream iss(text); std::string current_line;
WrapCall ==
    /\ wrap_pc = "idle"
    /\ wrap_pc' = "read"
    /\ words' = <<>>
    /\ current_line' = <<>>
    /\ lines' = <<>>
    /\ UNCHANGED taskVars

\* current_line.length() + word.length() + 1 <= chars_per_line
FitsLine(line, word) == LineLength(line) + word + 1 <= chars_per_line

\* while (iss >> word) { ... }: one turn of the loop, with the next word
WrapWord ==
    /\ wrap_pc = "read"
    /\ Len(words) < MaxWords
    /\ \E word \in WordLengths :
          /\ words' = Append(words, word)
          /\ IF current_line = <<>>
                THEN /\ current_line' = <<word>>
                     /\ lines' = lines
                ELSE IF FitsLine(current_line, word)
                THEN /\ current_line' = Append(current_line, word)
                     /\ lines' = lines
                ELSE /\ lines' = Append(lines, current_line)
                     /\ current_line' = <<word>>
    /\ UNCHANGED <<wrap_pc, taskVars>>

\* the stream is at its end: if (!current_line.empty()) lines.push_back(current_line);
WrapFlush ==
    /\ wrap_pc = "read"
    /\ lines' = IF current_line # <<>> THEN Append(lines, current_line) ELSE lines
    /\ wrap_pc' = "limit"
    /\ UNCHANGED <<words, current_line, taskVars>>

\* if (lines.size() > 8) lines.resize(8);
LimitLines(l) == IF Len(l) > MaxLines THEN SubSeq(l, 1, MaxLines) ELSE l

\* the limit of 8 lines; wrapText returns
WrapLimit ==
    /\ wrap_pc = "limit"
    /\ lines' = LimitLines(lines)
    /\ wrap_pc' = "done"
    /\ UNCHANGED <<words, current_line, taskVars>>

wrapText ==
    \/ WrapCall
    \/ WrapWord
    \/ WrapFlush
    \/ WrapLimit

\* ------------------------------------------------------------------ runs
\* The values of the variables no task has touched yet.
Fresh ==
    /\ g_running = TRUE
    /\ g_low_power_mode = FALSE
    /\ g_text_mutex = "free"
    /\ text = NoText
    /\ text_to_display = NoText
    /\ current_transcriptions = <<>>
    /\ i = 0
    /\ vibrations = 0
    /\ battery_level = NoLevel
    /\ transcriptions = <<>>
    /\ batch = {}
    /\ synced = 0
    /\ uploaded = {}
    /\ interval = 0
    /\ released = <<>>
    /\ joined = <<>>
    /\ exit_code = NoExit
    /\ shutdown_reported = FALSE
    /\ failed_at = NoFail
    /\ read_failed = FALSE
    /\ wrap_pc = "idle"
    /\ words = <<>>
    /\ current_line = <<>>
    /\ lines = <<>>

\* The start of the program: main() has installed the signal handler and is
\* about to construct the first collaborator; the globals are as initialized.
Init ==
    /\ Fresh
    /\ g_current_transcription = NoText
    /\ g_transcription_history = <<>>
    /\ pc = [t \in Tasks |-> "idle"]
    /\ last_saved_transcriptions = <<>>
    /\ store = <<>>
    /\ prev_seen = NoCycle
    /\ speechLeft = MaxSpeech
    /\ appended = 0
    /\ main_pc = "construct"
    /\ constructed = <<>>
    /\ faultsLeft = 0

\* main() has started the five tasks and waits in its first join; none of the
\* tasks in `moved` has taken a step, the others have made k appends of which
\* the storage task has saved the first s in one cycle.
TasksStartedWith(k, s, speech, faults) ==
    /\ Fresh
    /\ faultsLeft = faults
    /\ g_current_transcription = k
    /\ g_transcription_history = HistoryAt(k)
    /\ pc = [t \in Tasks |-> "loop"]
    /\ last_saved_transcriptions = HistoryAt(s)
    /\ store = [j \in 1 .. s |-> [text |-> j, time |-> s]]
    /\ prev_seen = s
    /\ speechLeft = speech
    /\ appended = k
    /\ main_pc = "join"
    /\ constructed = Collaborators

\* The same, in a run in which no collaborator call fails.
TasksStarted(k, s, speech) == TasksStartedWith(k, s, speech, 0)

Next ==
    \/ main
    \/ signalHandler
    \/ audioProcessingThread
    \/ displayUpdateThread
    \/ storageThread
    \/ powerManagementThread
    \/ connectivityThread

Spec == Init /\ [][Next]_vars

\* The capture task alone, from the moment the tasks were started.
InitCapture == TasksStarted(0, 0, MaxSpeechCapture)

NextCapture == audioProcessingThread

SpecCapture == InitCapture /\ [][NextCapture]_vars

\* The capture task and the three tasks that read the shared text, started
\* when the history is nearly full.
InitHistory == TasksStarted(PreFill, PreFill, MaxSpeechTasks)

NextHistory ==
    \/ audioProcessingThread
    \/ displayUpdateThread
    \/ storageThread
    \/ connectivityThread

SpecHistory == InitHistory /\ [][NextHistory]_vars

\* The capture task and the storage task, from the empty history or from a
\* nearly full one of which the storage task has saved every record.
InitStorage == \E k \in {0, PreFill} : TasksStarted(k, k, MaxSpeechStorage)

NextStorage == audioProcessingThread \/ storageThread

SpecStorage == InitStorage /\ [][NextStorage]_vars

\* The power task and the connectivity task, which reads the mode it publishes.
InitPower == TasksStarted(0, 0, 0)

NextPower == powerManagementThread \/ connectivityThread

SpecPower == InitPower /\ [][NextPower]_vars

\* The five tasks from their start, with the signal; every thread that can
\* take a step is eventually scheduled, and every call it makes returns.
InitShutdown == TasksStarted(0, 0, MaxSpeech)

NextShutdown ==
    \/ signalHandler
    \/ audioProcessingThread
    \/ displayUpdateThread
    \/ storageThread
    \/ powerManagementThread
    \/ connectivityThread

Fairness ==
    /\ WF_vars(audioProcessingThread)
    /\ WF_vars(displayUpdateThread)
    /\ WF_vars(storageThread)
    /\ WF_vars(powerManagementThread)
    /\ WF_vars(connectivityThread)

SpecShutdown == InitShutdown /\ [][NextShutdown]_vars /\ Fairness

\* The capture task and the storage task when a write to the durable store
\* can fail.
InitStorageFaults == \E k \in {0, PreFill} : TasksStartedWith(k, k, MaxSpeechStorage, MaxFaults)

SpecStorageFaults == InitStorageFaults /\ [][NextStorage]_vars

\* The power task and the connectivity task when a battery read can fail.
InitPowerFaults == TasksStartedWith(0, 0, 0, MaxFaults)

SpecPowerFaults == InitPowerFaults /\ [][NextPower]_vars

\* The steps a task takes while it holds the text mutex.
CriticalStep ==
    \/ AudioSetCurrent
    \/ AudioPushBack
    \/ AudioLimit
    \/ DisplayCopy
    \/ StorageCopy
    \/ ConnCopy

\* Scheduling when collaborator calls may hang: a thread inside its critical
\* section keeps running, and a thread waiting for a mutex that is free again
\* and again gets it; of the steps that call a collaborator nothing is assumed.
FairnessOfMutex ==
    /\ WF_vars(CriticalStep)
    /\ SF_vars(AudioLock)
    /\ SF_vars(DisplayLock)
    /\ SF_vars(StorageLock)
    /\ SF_vars(ConnLock)

\* The five tasks from their start, while the run flag stays set.
NextStall ==
    \/ audioProcessingThread
    \/ displayUpdateThread
    \/ storageThread
    \/ powerManagementThread
    \/ connectivityThread

\* The five running tasks when any collaborator call may hang for ever.
SpecStall == InitShutdown /\ [][NextStall]_vars /\ FairnessOfMutex

\* One call of Display::wrapText, on any text of up to MaxWords words.
InitWrap == TasksStarted(0, 0, 0)

SpecWrap == InitWrap /\ [][wrapText]_vars

\* ------------------------------------------------------------- the claims
\* The shared history and current transcription are in the state a whole
\* number of appends leaves them in.
BetweenAppends ==
    /\ g_transcription_history = HistoryAt(appended)
    /\ g_current_transcription = appended

\* C1: whenever the capture task does not hold the text mutex, the shared
\* history holds at most MaxHistory (100) entries.
C1_HistoryBounded ==
    g_text_mutex # "audio" => Len(g_transcription_history) <= MaxHistory

\* The 101st append is complete: the history is back at 100 entries.
C1_Witness ==
    /\ appended = MaxHistory + 1
    /\ g_text_mutex = "free"
    /\ Len(g_transcription_history) = MaxHistory

\* C2: eviction is strict FIFO. After n appends the history, seen outside the
\* capture task's critical section, is exactly the last min(n, 100) appended
\* texts in the order of their appends.
C2_FifoEviction ==
    g_text_mutex # "audio" =>
        /\ Len(g_transcription_history) = Min(appended, MaxHistory)
        /\ \A j \in 1 .. Len(g_transcription_history) :
              g_transcription_history[j] = appended - Len(g_transcription_history) + j

\* After 150 appends the history holds the appends 51 .. 150.
C2_Witness ==
    /\ appended = MaxHistory + 50
    /\ g_text_mutex = "free"
    /\ g_transcription_history[1] = 51
    /\ g_transcription_history[MaxHistory] = 150

Readers == {"display", "storage", "connectivity"}

\* A copy of the history a task holds is empty (no copy yet) or a history
\* that a whole number of appends produced.
IsHistorySnapshot(h) ==
    \/ h = <<>>
    \/ /\ SnapshotCount(h) \in 1 .. appended
       /\ h = HistoryAt(SnapshotCount(h))

\* C3: while a reader holds the text mutex the shared text is in a state
\* between two whole appends: current is the text of the last history entry
\* (both empty before the first append) and the history has at most 100
\* entries; and every copy a reader has taken is such a state.
C3_ReadersSeeWholeAppends ==
    /\ g_text_mutex \in Readers =>
          /\ Len(g_transcription_history) <= MaxHistory
          /\ IF g_transcription_history = <<>>
                THEN g_current_transcription = NoText
                ELSE g_current_transcription =
                        g_transcription_history[Len(g_transcription_history)]
          /\ BetweenAppends
    /\ text_to_display \in 0 .. appended
    /\ IsHistorySnapshot(current_transcriptions)
    /\ IsHistorySnapshot(transcriptions)

\* The storage task holds the mutex on a full history while the capture task
\* waits for the mutex with the text that will evict the oldest entry.
C3_Witness ==
    /\ g_text_mutex = "storage"
    /\ pc["audio"] = "lock"
    /\ appended = MaxHistory
    /\ Len(g_transcription_history) = MaxHistory

\* The persistence watermark: the number of records the storage task regards
\* as saved.
Watermark == Len(last_saved_transcriptions)

\* C4: the watermark never exceeds the number of records ever appended, and no
\* step of any task decreases it.
C4_WatermarkMonotone ==
    /\ [](Watermark <= appended)
    /\ [][Len(last_saved_transcriptions') >= Len(last_saved_transcriptions)]_vars

\* The watermark has advanced to 100 and a 101st record was appended.
C4_Witness ==
    /\ Watermark = MaxHistory
    /\ appended = MaxHistory + 1
    /\ pc["storage"] = "loop"

\* How often the record with text r was written to the durable store.
TimesStored(r) == Cardinality({j \in DOMAIN store : store[j].text = r})

\* C5: when no more than 100 appends were made in the run (so no more than 100
\* between two storage cycles), every record that the last finished storage
\* cycle saw appended is in the durable store exactly once.
C5_EveryRecordStoredOnce ==
    (/\ pc["storage"] = "loop"
     /\ prev_seen # NoCycle
     /\ MaxSpeechStorage - speechLeft <= MaxHistory)
        => \A r \in 1 .. prev_seen : TimesStored(r) = 1

\* C6: a storage cycle whose snapshot has seen no more appends than the
\* previous cycle's writes nothing to the durable store and leaves the
\* watermark (and the saved copy) as it was.
C6_IdleCycleIsNoOp ==
    [][(/\ pc["storage"] \in {"compare", "save"}
        /\ prev_seen # NoCycle
        /\ SnapshotCount(current_transcriptions) = prev_seen)
          => /\ store' = store
             /\ last_saved_transcriptions' = last_saved_transcriptions]_vars

\* A cycle saved the 100th record, and the next cycle has taken its snapshot
\* with no append in between.
C6_Witness ==
    /\ pc["storage"] = "compare"
    /\ prev_seen = MaxHistory
    /\ SnapshotCount(current_transcriptions) = prev_seen
    /\ Watermark = MaxHistory

\* C7: the power mode follows hysteresis. A step changes it from Normal to
\* Low only when it is the decision on a sample below 0.20, from Low to Normal
\* only when it is the decision on a sample above 0.30; the decision on a
\* sample below 0.20 gives Low, on one above 0.30 gives Normal, and on a sample
\* in [0.20, 0.30] leaves the mode as it was.
C7_Hysteresis ==
    [][LET deciding == pc["power"] = "decide" /\ pc'["power"] = "update" IN
       /\ (~g_low_power_mode /\ g_low_power_mode') =>
              (deciding /\ battery_level < LowThreshold)
       /\ (g_low_power_mode /\ ~g_low_power_mode') =>
              (deciding /\ battery_level > HighThreshold)
       /\ (deciding /\ battery_level < LowThreshold) => g_low_power_mode'
       /\ (deciding /\ battery_level > HighThreshold) => ~g_low_power_mode'
       /\ (deciding /\ battery_level >= LowThreshold /\ battery_level <= HighThreshold)
              => g_low_power_mode' = g_low_power_mode]_vars

\* The mode, Normal at the start, went Low on an earlier sample and has stayed
\* Low on the sample 0.25.
C7_Witness ==
    /\ pc["power"] = "update"
    /\ battery_level = 250000000
    /\ g_low_power_mode

AllReturned == \A t \in Tasks : pc[t] = "done"

\* C8: once the run flag is cleared, no task starts another loop iteration
\* (from the head of its loop it can only return), and every task eventually
\* returns.
C8_ShutdownReached ==
    /\ [][~g_running =>
             \A t \in Tasks : pc[t] = "loop" => pc'[t] \in {"loop", "done"}]_vars
    /\ (~g_running) ~> AllReturned

\* The flag was cleared after a record was appended and saved, and all five
\* tasks have returned.
C8_Witness ==
    /\ ~g_running
    /\ AllReturned
    /\ appended = 1
    /\ Len(store) = 1

\* The first n collaborators in the reverse of the order main() constructs them.
ReverseOf(q, n) == [j \in 1 .. n |-> q[Len(q) - j + 1]]

\* C9: a task thread is started only after all ten collaborators were
\* constructed; when a constructor has failed no task thread is ever started
\* and the process, once it has exited, has exited with code 1.
C9_InitFailureAborts ==
    /\ Started # {} => constructed = Collaborators
    /\ main_pc = "unwind" => (Started = {} /\ constructed # Collaborators)
    /\ (main_pc = "exited" /\ constructed # Collaborators) =>
          (Started = {} /\ exit_code = 1 /\ ~shutdown_reported)

\* The speech-to-text engine (the eighth collaborator) failed to initialize
\* and the process has exited.
C9_Witness ==
    /\ main_pc = "exited"
    /\ exit_code = 1
    /\ Len(constructed) = 7
    /\ Started = {}

\* C10: shutdown is reported and the process exits with code 0 only after all
\* five tasks have returned and were joined; no collaborator is released while
\* a started task has not returned; and collaborators are released in the
\* reverse of the order of their construction, all of them before the exit.
C10_OrderlyShutdown ==
    /\ (shutdown_reported \/ exit_code = 0) =>
          (AllReturned /\ joined = ThreadOrder /\ Len(released) = Len(Collaborators))
    /\ released # <<>> => (Started = {} \/ AllReturned)
    /\ released = ReverseOf(constructed, Len(released))

\* After an append the signal arrived, the tasks returned, and the process
\* released the ten collaborators and exited with code 0.
C10_Witness ==
    /\ exit_code = 0
    /\ shutdown_reported
    /\ appended = 1
    /\ released = ReverseOf(Collaborators, Len(Collaborators))

\* The positions at which a task is inside a call of a hardware or other
\* collaborator: capture/noise/transcribe and keyword/haptic; the display
\* render; the durable-store write; the link queries, sync, backup and the
\* store's sync marks; the battery read and the power-mode update.
CollaboratorCall ==
    [t \in Tasks |->
        CASE t = "audio" -> {"capture", "keyword"}
          [] t = "display" -> {"show"}
          [] t = "storage" -> {"save"}
          [] t = "power" -> {"sample", "update"}
          [] t = "connectivity" -> {"bt", "bt_sync", "wifi", "backup", "mark"}]

\* C11: no task is inside a collaborator call while it holds the text mutex,
\* and a step a task takes while holding the mutex changes only the shared
\* text (and the task's own copy of it): it writes nothing to the durable
\* store, triggers no haptic, uploads and marks nothing and leaves the power
\* mode alone.
C11_NoCallUnderMutex ==
    /\ [](\A t \in Tasks : pc[t] \in CollaboratorCall[t] => g_text_mutex # t)
    /\ [][\A t \in Tasks :
            (g_text_mutex = t /\ pc'[t] # pc[t]) =>
                /\ store' = store
                /\ vibrations' = vibrations
                /\ uploaded' = uploaded
                /\ synced' = synced
                /\ g_low_power_mode' = g_low_power_mode
                /\ pc[t] \notin CollaboratorCall[t]]_vars

\* The storage task writes a record to the durable store while the capture
\* task is inside its critical section, appending the next one.
C11_Witness ==
    /\ pc["storage"] = "save"
    /\ i < Len(current_transcriptions)
    /\ g_text_mutex = "audio"
    /\ pc["audio"] = "push_back"

\* How many of the first n appended texts contain a keyword.
KeywordRecords(n) == Cardinality({k \in 1 .. n : detectKeywords(k)})

\* The capture task has passed the keyword test with a text it has yet to
\* append.
AboutToAppend == pc["audio"] \in {"lock", "set_current", "push_back"}

\* C12: the number of haptic triggers is the number of appended records whose
\* text contains a keyword, plus one when the capture task is about to append
\* such a text (the trigger precedes the append); texts without a keyword and
\* empty results add none.
C12_HapticOncePerKeywordRecord ==
    vibrations = KeywordRecords(appended)
                   + (IF AboutToAppend /\ detectKeywords(text) THEN 1 ELSE 0)

\* After a record without a keyword was appended, the haptic was triggered for
\* the second text, which contains one and is not appended yet.
C12_Witness ==
    /\ pc["audio"] = "lock"
    /\ text = 2
    /\ appended = 1
    /\ vibrations = 1

\* C13: every record of the durable store that is marked synced was part of
\* an upload that succeeded.
C13_SyncedOnlyAfterUpload == \A r \in 1 .. synced : r \in uploaded

\* The collaborators (objects main() passes by reference) whose member
\* functions the next step of task t calls.
Using(t) ==
    CASE t = "audio" ->
            (CASE pc[t] = "capture" -> {"audio", "noise", "stt"}
               [] pc[t] = "keyword" -> {"keyword", "haptic"}
               [] OTHER -> {})
      [] t = "display" -> IF pc[t] = "show" THEN {"display"} ELSE {}
      [] t = "storage" ->
            IF pc[t] = "save" /\ i < Len(current_transcriptions)
               THEN {"storage"} ELSE {}
      [] t = "power" -> IF pc[t] \in {"sample", "update"} THEN {"power"} ELSE {}
      [] t = "connectivity" ->
            (CASE pc[t] \in {"bt", "bt_sync"} -> {"bluetooth"}
               [] pc[t] = "wifi" -> {"wifi", "storage"}
               [] pc[t] = "backup" -> {"wifi"}
               [] pc[t] = "mark" -> {"storage"}
               [] OTHER -> {})

\* C14: apart from the shared text, no mutable object is used by two tasks:
\* two different tasks are never both at a call on the same collaborator
\* (the durable store with its watermark and sync flags in particular) unless
\* one of them holds the text mutex.
C14_OnlyTextIsShared ==
    \A t, u \in Tasks :
        (t # u /\ Using(t) \cap Using(u) # {}) => g_text_mutex \in {t, u}

\* C15: once a write of a storage cycle has failed for the record at index
\* failed_at of the snapshot, the cycle writes no further record, and the
\* watermark stays at or below that index, so that the next cycle starts again
\* at the failed record.
C15_FailedWriteStopsBatch ==
    [][(pc["storage"] = "save" /\ failed_at # NoFail) =>
          /\ store' = store
          /\ Len(last_saved_transcriptions') <= failed_at]_vars

\* C16: the step in which the transcriber hands back the empty string ends the
\* iteration: the capture task is back at the head of its loop with current,
\* history and the haptic count as they were; the task is past the emptiness
\* test only with a non-empty text; and no entry of the history is empty.
C16_EmptyResultIsNoOp ==
    /\ [][(pc["audio"] = "capture" /\ pc'["audio"] # "capture" /\ text' = NoText) =>
             /\ pc'["audio"] = "loop"
             /\ UNCHANGED <<sharedText, vibrations, appended>>]_vars
    /\ [](pc["audio"] \in {"keyword", "lock", "set_current", "push_back", "limit"}
             => text # NoText)
    /\ [](\A j \in DOMAIN g_transcription_history :
             g_transcription_history[j] # NoText)

\* After the first append the capture task is in an iteration whose result is
\* still open: the empty string, or the second text.
C16_Witness ==
    /\ pc["audio"] = "capture"
    /\ text = NoText
    /\ g_current_transcription = 1
    /\ g_transcription_history = <<1>>

\* The positions of task t inside its critical section.
CriticalSection(t) ==
    CASE t = "audio" -> {"set_current", "push_back", "limit"}
      [] t = "display" -> {"copy"}
      [] t = "storage" -> {"copy"}
      [] t = "connectivity" -> {"bt_copy"}
      [] OTHER -> {}

\* Task t waits for the text mutex.
WaitsForMutex(t) ==
    \/ t \in {"audio", "display", "storage"} /\ pc[t] = "lock"
    \/ t = "connectivity" /\ pc[t] = "bt_lock"

MutexUsers == {"audio", "display", "storage", "connectivity"}

C18_WaitFollowsModeAtStart ==
    /\ [][(pc["connectivity"] = "wait" /\ pc'["connectivity"] = "sleep") =>
             interval' = (IF g_low_power_mode THEN LongInterval ELSE ShortInterval)]_vars
    /\ [][(pc["connectivity"] = "sleep" /\ pc'["connectivity"] = "sleep") =>
             interval' = interval]_vars
    /\ [](pc["connectivity"] = "sleep" => interval \in {LongInterval, ShortInterval})

\* The connectivity task is in a short wait begun in Normal mode, and the
\* power task has published Low in the meantime.
C18_Witness ==
    /\ pc["connectivity"] = "sleep"
    /\ interval = ShortInterval
    /\ g_low_power_mode

RECURSIVE Flatten(_)
\* The words of a sequence of lines, in order.
Flatten(l) == IF l = <<>> THEN <<>> ELSE Head(l) \o Flatten(Tail(l))

\* C19: when wrapText has returned, lines holds at most 8 lines, each of at
\* most 21 characters and none empty, and the words of the lines, in order,
\* are the first words of the text in their order.
C19_WrapWithinLimits ==
    wrap_pc = "done" =>
        /\ Len(lines) <= MaxLines
        /\ \A j \in DOMAIN lines :
              /\ lines[j] # <<>>
              /\ LineLength(lines[j]) <= chars_per_line
        /\ Len(Flatten(lines)) <= Len(words)
        /\ Flatten(lines) = SubSeq(words, 1, Len(Flatten(lines)))

\* C20: in a cycle of the power task whose battery read failed, the decision
\* step leaves the published power mode as it was before the cycle.
C20_FailedReadKeepsMode ==
    [][(pc["power"] = "decide" /\ read_failed /\ pc'["power"] # "decide") =>
          g_low_power_mode' = g_low_power_mode]_vars

\* C21: every record written to the durable store carries as its timestamp
\* the instant of its append to the shared history (on the clock that advances
\* with every append, the record with text r was appended at instant r).
C21_TimestampIsAppendInstant ==
    [][Len(store') > Len(store) =>
          store'[Len(store')].time = store'[Len(store')].text]_vars

\* C22: the connectivity task copies the history while it holds the text
\* mutex, and the copy is the whole history as it stands at that instant,
\* between two appends; the copy is not altered before it is sent; and the
\* send to the short-range link, of exactly that copy, happens when the task
\* no longer holds the mutex.
C22_SyncSendsOneSnapshot ==
    /\ [][(pc["connectivity"] = "bt_copy" /\ pc'["connectivity"] # "bt_copy") =>
             /\ g_text_mutex = "connectivity"
             /\ BetweenAppends
             /\ transcriptions' = g_transcription_history
             /\ pc'["connectivity"] = "bt_sync"
             /\ g_text_mutex' = "free"]_vars
    /\ [][(pc["connectivity"] = "bt_sync" /\ pc'["connectivity"] = "bt_sync") =>
             transcriptions' = transcriptions]_vars
    /\ [](pc["connectivity"] = "bt_sync" =>
             /\ g_text_mutex # "connectivity"
             /\ IsHistorySnapshot(transcriptions))

\* The connectivity task is about to send the snapshot of the first 100
\* records, after the mutex was released and the 101st record was appended.
C22_Witness ==
    /\ pc["connectivity"] = "bt_sync"
    /\ transcriptions = HistoryAt(MaxHistory)
    /\ appended = MaxHistory + 1
    /\ g_text_mutex = "free"

\* C23: the durable store never holds more than 100 written records (every
\* write call adds one when no call fails), and once the watermark has
\* reached 100 no step writes to the store, whatever is appended.
C23_AtMostHundredWrites ==
    /\ [](Len(store) <= MaxHistory)
    /\ [][Watermark = MaxHistory => store' = store]_vars

\* With 100 records written, a storage cycle has seen the 102nd append and
\* finished without a write.
C23_Witness ==
    /\ pc["storage"] = "loop"
    /\ Len(store) = MaxHistory
    /\ Watermark = MaxHistory
    /\ prev_seen = MaxHistory + 2

\* C24: the run flag is true in the initial state, when main() starts; a step that changes it
\* changes it from true to false and is a step of the signal handler alone
\* (no task and no step of main() moves with it); and a task that has
\* returned from its loop stays returned.
C24_RunFlagMonotonic ==
    /\ g_running = TRUE
    /\ [][g_running' # g_running =>
             /\ g_running /\ ~g_running'
             /\ UNCHANGED <<pc, mainVars, g_low_power_mode, g_text_mutex, sharedText>>]_vars
    /\ [][~g_running => ~g_running']_vars
    /\ [][\A t \in Tasks : pc[t] = "done" => pc'[t] = "done"]_vars

\* The signal has arrived: the capture task has returned while the display
\* task is still in the iteration it was in.
C24_Witness ==
    /\ ~g_running
    /\ pc["audio"] = "done"
    /\ pc["display"] = "show"
    /\ main_pc = "join"

====
